---- MODULE Spec2Model ----
(***************************************************************************)
(* Dictation session controller of deepgram-voice-keyboard.                *)
(*                                                                         *)
(* The repository holds two builds of the controller:                      *)
(*   "app"  app/src/gui.rs : stop and Drop kill, poll try_wait, kill, wait *)
(*   "src"  src/gui.rs     : stop only kills; there is no Drop             *)
(* Two execution contexts act on the shared slot voice_keyboard_process:   *)
(*   "H"  the detached hotkey listener thread spawned in new()             *)
(*   "U"  the GUI context running update() and, at exit, Drop::drop        *)
(* Worker children are numbered 1..MaxToggles in launch order; 0 is None.  *)
(* Child::kill() of std::process sends SIGKILL unless the exit status has  *)
(* already been collected; its result is discarded by the code (let _ =).  *)
(***************************************************************************)
EXTENDS Naturals, FiniteSets, Sequences

\* Total number of toggle requests (hotkey presses plus button clicks).
MaxToggles == 3

\* Grace windows and poll intervals of the termination loops, in ms.
STOP_GRACE_MS == 2000
STOP_POLL_MS == 100
DROP_GRACE_MS == 1000
DROP_POLL_MS == 50

Builds == {"app", "src"}
Threads == {"H", "U"}
Keys == {"", "k1"}
NoVar == "<unset>"
Children == 1..MaxToggles
None == 0

VARIABLES
    build,                  \* which gui.rs is running
    voice_keyboard_process, \* Arc<Mutex<Option<Child>>>: None or a child id
    process_lock,           \* holder of that mutex: "free", "H" or "U"
    audio_sink,             \* holder of the audio sink mutex
    is_recording,           \* VoiceKeyboardGui.is_recording
    status_message,         \* VoiceKeyboardGui.status_message
    api_key,                \* config.api_key
    env_key,                \* process environment DEEPGRAM_API_KEY
    events,                 \* hotkey events queued in the receiver
    pc,                     \* position of each context
    held,                   \* the Child a context took out of the slot / spawned
    elapsed,                \* start.elapsed() of a context's poll loop, ms
    sawExit,                \* the poll loop left through Ok(Some(_))
    proc,                   \* the worker processes
    issued,                 \* toggle requests issued so far
    last,                   \* record of the last completed toggle call
    torn,                   \* the child in the slot when teardown began
    exited,                 \* the controller process has exited
    environ,                \* the controller's other environment variables
    cmd,                    \* the command built by the last launch attempt
    fx,                     \* side effects so far of each context's toggle call
    start_key               \* DEEPGRAM_API_KEY as inherited or as of the last UI start

vars == <<build, voice_keyboard_process, process_lock, audio_sink, is_recording,
          status_message, api_key, env_key, events, pc, held, elapsed, sawExit,
          proc, issued, last, torn, exited, environ, cmd, fx, start_key>>

\* The variables start_dictation and the listener forward to the worker:
\* DEEPGRAM_API_KEY and the six read with std::env::var.
ALLOW_LIST == {"DEEPGRAM_API_KEY", "PULSE_RUNTIME_PATH", "XDG_RUNTIME_DIR",
               "DISPLAY", "WAYLAND_DISPLAY", "HOME", "USER"}

\* The environment of the controller: the allow-listed names and PATH, which
\* stands for every variable outside the list.
EnvNames == ALLOW_LIST \cup {"PATH"}
OtherNames == EnvNames \ {"DEEPGRAM_API_KEY"}

\* A variable is unset, empty, an ordinary string, or set to bytes that are
\* not Unicode (std::env::var answers Err for the first and the last).
NotUnicode == "<not unicode>"
EnvVals == {NoVar, "", "v", NotUnicode}

\* The environment of an ordinary desktop session.
SessionEnv == [n \in OtherNames |->
                 IF n \in {"PULSE_RUNTIME_PATH", "WAYLAND_DISPLAY"} THEN NoVar
                 ELSE "v"]

NoCmd == [by |-> "none"]

Unborn == [st |-> "unborn", selfExit |-> FALSE, kills |-> 0,
           outcome |-> "none", by |-> "none", liveAtStop |-> FALSE,
           fullGrace |-> FALSE, sig |-> "none", users |-> {}]

\* What a completed toggle call did, without its place in the history.
Summary(r) == [src |-> r.src, kind |-> r.kind, key |-> r.key,
               effect |-> r.effect, handle |-> r.handle, rec |-> r.rec,
               status |-> r.status, fx |-> r.fx]

NoSummary == [src |-> "none", kind |-> "none", key |-> NoVar,
              effect |-> "none", handle |-> FALSE, rec |-> FALSE,
              status |-> "Ready", fx |-> <<>>]

NoToggle == [n |-> 0, m |-> 0, src |-> "none", kind |-> "none", key |-> NoVar,
             effect |-> "none", prev |-> "none", handle |-> FALSE,
             rec |-> FALSE, status |-> "Ready", dbl |-> FALSE,
             fx |-> <<>>, dead |-> FALSE, peer |-> NoSummary]

Init ==
    /\ build \in Builds
    /\ voice_keyboard_process = None
    /\ process_lock = "free"
    /\ audio_sink = "free"
    /\ is_recording = FALSE
    /\ status_message = "Ready"
    /\ api_key \in Keys
    /\ env_key \in Keys \cup {NoVar}
    /\ events = 0
    /\ pc = [t \in Threads |-> IF t = "H" THEN "recv" ELSE "idle"]
    /\ held = [t \in Threads |-> None]
    /\ elapsed = [t \in Threads |-> 0]
    /\ sawExit = [t \in Threads |-> FALSE]
    /\ proc = [c \in Children |-> Unborn]
    /\ issued = 0
    /\ last = NoToggle
    /\ torn = None
    /\ exited = FALSE
    /\ environ = SessionEnv
    /\ cmd = NoCmd
    /\ fx = [t \in Threads |-> <<>>]
    /\ start_key = env_key

-----------------------------------------------------------------------------
(* Worker processes.  st: "unborn", "running", "dying" (SIGKILL delivered:  *)
(* try_wait may still answer Ok(None)), "zombie" (exited on its own, status *)
(* not collected), "reaped" (status collected by try_wait or wait).         *)

Running == {c \in Children : proc[c].st = "running"}

NextChild == CHOOSE c \in Children :
                 /\ proc[c].st = "unborn"
                 /\ \A d \in Children : d < c => proc[d].st # "unborn"

\* cmd.spawn() returning Ok(child): a new worker process runs.
Spawned(c) == [proc EXCEPT ![c].st = "running"]

\* child.kill(): no signal once the status is collected; otherwise SIGKILL is
\* sent, and the outcome ok says whether it was delivered (Err is discarded).
Kill(c, ok) ==
    IF proc[c].st = "reaped" THEN proc
    ELSE [proc EXCEPT ![c].kills = @ + 1,
                      ![c].st = IF @ = "running" /\ ok THEN "dying" ELSE @]

\* The execution context thread t is running: the listener, the UI (update)
\* or teardown (Drop, on the GUI thread).
Ctx(t) ==
    IF t = "H" THEN "H"
    ELSE IF pc["U"] \in {"drop_take", "drop_poll", "drop_kill2", "drop_wait"}
         THEN "Drop" ELSE "U"

\* Context who has called kill, try_wait or wait on the Child c (p: the
\* processes after the call).
Used(p, c, who) == [p EXCEPT ![c].users = @ \cup {who}]

\* A read of the slot that leaves the handle in it.
Peeked == voice_keyboard_process

\* Option::take(): the value is moved out and the slot is left None.
Taken == None

\* std::process::Child::kill on Unix: kill(pid, SIGKILL).
KILL_SIGNAL == "SIGKILL"

\* The first kill of a child just taken out of the slot by context who; sig is
\* the signal of this first request.
TakeKill(c, who, ok) ==
    [Kill(c, ok) EXCEPT ![c].by = who,
                        ![c].users = @ \cup {who},
                        ![c].sig = KILL_SIGNAL,
                        ![c].liveAtStop = (proc[c].st = "running")]

\* try_wait() returning Ok(Some(_)), or wait() returning: status collected.
Reap(c) == [proc EXCEPT ![c].st = "reaped"]

\* Context t performs the side effects evs, in this order.
Did(t, evs) == fx' = [fx EXCEPT ![t] = @ \o evs]

\* Context t's toggle call returns.
Return(t) == fx' = [fx EXCEPT ![t] = <<>>]

\* The record of a toggle call that has just returned.
\* m counts the calls that were not a refused or failed start; dbl: the call
\* launched a child while an earlier one was still running; fx: the side
\* effects of the call in order, ending with tail; dead: the child stopped
\* had exited before the call's first signal; peer: the last call completed
\* by the other trigger source.
Completed(src, kind, key, effect, slot, rec, status, tail, dead) ==
    [n |-> last.n + 1,
     m |-> IF effect \in {"refused", "failed"} THEN last.m ELSE last.m + 1,
     src |-> src, kind |-> kind, key |-> key,
     effect |-> effect, prev |-> last.effect, handle |-> slot # None,
     rec |-> rec, status |-> status,
     dbl |-> (effect = "started" /\ Running \ {slot} # {}),
     fx |-> fx[src] \o tail, dead |-> dead,
     peer |-> IF last.src \in {src, "none"} THEN last.peer ELSE Summary(last)]

-----------------------------------------------------------------------------
(* The launch command.                                                     *)

\* The controller's whole environment, as the launched command sees it.
Environ == [n \in EnvNames |->
              IF n = "DEEPGRAM_API_KEY" THEN env_key ELSE environ[n]]

\* std::env::var(n): Ok(value) or Err (unset, or not Unicode), given as NoVar.
EnvVar(n) == IF Environ[n] = NotUnicode THEN NoVar ELSE Environ[n]

\* app: pkexec env DEEPGRAM_API_KEY=<key> [NAME=<val> for each Ok(val)] ...
\* The variables the worker is given are the assignments handed to env.
EnvArgs(key) ==
    [n \in EnvNames |->
        IF n = "DEEPGRAM_API_KEY" THEN key
        ELSE IF n \in ALLOW_LIST THEN EnvVar(n)
        ELSE NoVar]

\* src: Command::new("pkexec")...env("DEEPGRAM_API_KEY", key).spawn(): a
\* Command inherits the whole environment of the controller, plus the key.
Inherited(key) ==
    [n \in EnvNames |-> IF n = "DEEPGRAM_API_KEY" THEN key ELSE Environ[n]]

\* The command a start builds: who built it, the controller's environment at
\* that moment and the variables passed on.
Command(by, key) ==
    [by |-> by, ctl |-> Environ,
     env |-> IF build = "app" THEN EnvArgs(key) ELSE Inherited(key)]

-----------------------------------------------------------------------------
(* Environment.                                                            *)

\* The user presses the global hotkey: an event is queued for the listener.
HotkeyPress ==
    /\ ~exited
    /\ issued < MaxToggles
    /\ events' = events + 1
    /\ issued' = issued + 1
    /\ UNCHANGED <<build, voice_keyboard_process, process_lock, audio_sink,
                   is_recording, status_message, api_key, env_key, pc, held,
                   elapsed, sawExit, proc, last, torn, exited, environ, cmd, fx,
                   start_key>>

\* A running worker exits on its own (crash, end of work).
ChildExit(c) ==
    /\ proc[c].st = "running"
    /\ proc' = [proc EXCEPT ![c].st = "zombie", ![c].selfExit = TRUE]
    /\ UNCHANGED <<build, voice_keyboard_process, process_lock, audio_sink,
                   is_recording, status_message, api_key, env_key, events, pc,
                   held, elapsed, sawExit, issued, last, torn, exited,
                   environ, cmd, fx,
                   start_key>>

-----------------------------------------------------------------------------
(* The termination loop shared by hotkey stop, UI stop and Drop.           *)

\* while start.elapsed() < grace { match child.try_wait() { ... } }
Poll(t, here, grace, interval, next) ==
    /\ ~exited
    /\ pc[t] = here
    /\ \/ /\ elapsed[t] >= grace
          /\ pc' = [pc EXCEPT ![t] = next]
          /\ UNCHANGED <<proc, elapsed, sawExit>>
       \/ /\ elapsed[t] < grace
          /\ proc[held[t]].st \in {"dying", "zombie"}
          /\ proc' = Used(Reap(held[t]), held[t], Ctx(t))
          /\ sawExit' = [sawExit EXCEPT ![t] = TRUE]
          /\ pc' = [pc EXCEPT ![t] = next]
          /\ UNCHANGED elapsed
       \/ /\ elapsed[t] < grace
          /\ proc[held[t]].st \in {"running", "dying"}
          /\ elapsed' = [elapsed EXCEPT ![t] = @ + interval]
          /\ proc' = Used(proc, held[t], Ctx(t))
          /\ UNCHANGED <<sawExit, pc>>
    /\ UNCHANGED <<build, voice_keyboard_process, process_lock, audio_sink,
                   is_recording, status_message, api_key, env_key, events,
                   held, issued, last, torn, exited, environ, cmd, fx,
                   start_key>>

\* "Force kill if still running": let _ = child.kill();
Kill2(t, here, next) ==
    /\ ~exited
    /\ pc[t] = here
    /\ \E ok \in BOOLEAN : proc' = Used(Kill(held[t], ok), held[t], Ctx(t))
    /\ pc' = [pc EXCEPT ![t] = next]
    /\ UNCHANGED <<build, voice_keyboard_process, process_lock, audio_sink,
                   is_recording, status_message, api_key, env_key, events,
                   held, elapsed, sawExit, issued, last, torn, exited,
                   environ, cmd, fx,
                   start_key>>

\* let _ = child.wait(): blocks until the child has exited.  The outcome of
\* the protocol is how the loop ended; fullGrace, that the loop ran for the
\* whole grace window.
Waited(t, grace) ==
    Used([Reap(held[t]) EXCEPT
            ![held[t]].outcome =
                IF sawExit[t] THEN "Exited" ELSE "TimedOutThenKilled",
            ![held[t]].fullGrace = (elapsed[t] >= grace)],
         held[t], Ctx(t))

CanWait(t) == proc[held[t]].st \in {"dying", "zombie", "reaped"}

-----------------------------------------------------------------------------
(* The hotkey listener thread (new(): std::thread::spawn).                 *)

\* receiver.recv() returns an event.
H_Recv ==
    /\ ~exited
    /\ pc["H"] = "recv"
    /\ events > 0
    /\ events' = events - 1
    /\ pc' = [pc EXCEPT !["H"] = "lock"]
    /\ UNCHANGED <<build, voice_keyboard_process, process_lock, audio_sink,
                   is_recording, status_message, api_key, env_key, held,
                   elapsed, sawExit, proc, issued, last, torn, exited,
                   environ, cmd, fx,
                   start_key>>

\* process_clone.lock().unwrap(); let is_running = process_lock.is_some();
H_Lock ==
    /\ ~exited
    /\ pc["H"] = "lock"
    /\ process_lock = "free"
    /\ process_lock' = "H"
    /\ pc' = [pc EXCEPT !["H"] = IF voice_keyboard_process # None
                                  THEN "stop_cue" ELSE "start_cue"]
    /\ UNCHANGED <<build, voice_keyboard_process, audio_sink, is_recording,
                   status_message, api_key, env_key, events, held, elapsed,
                   sawExit, proc, issued, last, torn, exited, environ, cmd, fx,
                   start_key>>

\* The stop beep: audio_sink_clone.lock(), append, unlock.
H_StopCue ==
    /\ ~exited
    /\ pc["H"] = "stop_cue"
    /\ audio_sink = "free"
    /\ pc' = [pc EXCEPT !["H"] = "take"]
    /\ Did("H", <<"cue">>)
    /\ UNCHANGED <<build, voice_keyboard_process, process_lock, audio_sink,
                   is_recording, status_message, api_key, env_key, events,
                   held, elapsed, sawExit, proc, issued, last, torn, exited,
                   environ, cmd,
                   start_key>>

\* if let Some(mut child) = process_lock.take() { let _ = child.kill(); ...
\* The src build ends the transition here: the guard and the Child are dropped.
H_Take ==
    /\ ~exited
    /\ pc["H"] = "take"
    /\ LET c == voice_keyboard_process IN
       \E ok \in BOOLEAN :
          /\ voice_keyboard_process' = Taken
          /\ IF build = "app"
             THEN /\ proc' = TakeKill(c, "H", ok)
                  /\ held' = [held EXCEPT !["H"] = c]
                  /\ elapsed' = [elapsed EXCEPT !["H"] = 0]
                  /\ sawExit' = [sawExit EXCEPT !["H"] = FALSE]
                  /\ pc' = [pc EXCEPT !["H"] = "poll"]
                  /\ Did("H", <<"clear", "signal">>)
                  /\ UNCHANGED <<process_lock, last>>
             ELSE /\ proc' = [TakeKill(c, "H", ok)
                                 EXCEPT ![c].outcome = "Unwaited"]
                  /\ process_lock' = "free"
                  /\ pc' = [pc EXCEPT !["H"] = "recv"]
                  /\ last' = Completed("H", "stop", NoVar, "stopped", None,
                                       is_recording, status_message,
                                       <<"clear", "signal">>,
                                       proc[c].st # "running")
                  /\ Return("H")
                  /\ UNCHANGED <<held, elapsed, sawExit>>
    /\ UNCHANGED <<build, audio_sink, is_recording, status_message, api_key,
                   env_key, events, issued, torn, exited, environ, cmd,
                   start_key>>

H_Poll == Poll("H", "poll", STOP_GRACE_MS, STOP_POLL_MS, "kill2")

H_Kill2 == Kill2("H", "kill2", "wait")

\* let _ = child.wait(); then the guard is dropped at the end of the iteration.
H_Wait ==
    /\ ~exited
    /\ pc["H"] = "wait"
    /\ CanWait("H")
    /\ proc' = Waited("H", STOP_GRACE_MS)
    /\ held' = [held EXCEPT !["H"] = None]
    /\ elapsed' = [elapsed EXCEPT !["H"] = 0]
    /\ sawExit' = [sawExit EXCEPT !["H"] = FALSE]
    /\ process_lock' = "free"
    /\ pc' = [pc EXCEPT !["H"] = "recv"]
    /\ last' = Completed("H", "stop", NoVar, "stopped", voice_keyboard_process,
                         is_recording, status_message, <<"await">>,
                         ~proc[held["H"]].liveAtStop)
    /\ Return("H")
    /\ UNCHANGED <<build, voice_keyboard_process, audio_sink, is_recording,
                   status_message, api_key, env_key, events, issued, torn,
                   exited, environ, cmd,
                   start_key>>

\* The start cue.  app: two beeps with a 50 ms sleep while the sink is locked;
\* src: one beep.
H_StartCue ==
    /\ ~exited
    /\ pc["H"] = "start_cue"
    /\ audio_sink = "free"
    /\ IF build = "app"
       THEN /\ audio_sink' = "H"
            /\ pc' = [pc EXCEPT !["H"] = "start_cue2"]
       ELSE /\ pc' = [pc EXCEPT !["H"] = "spawn"]
            /\ UNCHANGED audio_sink
    /\ Did("H", <<"cue">>)
    /\ UNCHANGED <<build, voice_keyboard_process, process_lock, is_recording,
                   status_message, api_key, env_key, events, held, elapsed,
                   sawExit, proc, issued, last, torn, exited, environ, cmd,
                   start_key>>

H_StartCue2 ==
    /\ ~exited
    /\ pc["H"] = "start_cue2"
    /\ audio_sink' = "free"
    /\ pc' = [pc EXCEPT !["H"] = "spawn"]
    /\ UNCHANGED <<build, voice_keyboard_process, process_lock, is_recording,
                   status_message, api_key, env_key, events, held, elapsed,
                   sawExit, proc, issued, last, torn, exited, environ, cmd, fx,
                   start_key>>

\* if let Ok(api_key) = env::var("DEEPGRAM_API_KEY") { if !api_key.is_empty() {
\*     ... if let Ok(child) = cmd.spawn() { *process_lock = Some(child); } } }
H_Spawn ==
    /\ ~exited
    /\ pc["H"] = "spawn"
    /\ \/ /\ env_key \in {NoVar, ""}
          /\ last' = Completed("H", "start", env_key, "refused",
                               voice_keyboard_process, is_recording,
                               status_message, <<>>, FALSE)
          /\ UNCHANGED <<voice_keyboard_process, proc, cmd>>
       \/ /\ env_key \notin {NoVar, ""}
          /\ cmd' = Command("H", env_key)
          /\ proc' = Spawned(NextChild)
          /\ voice_keyboard_process' = NextChild
          /\ last' = Completed("H", "start", env_key, "started", NextChild,
                               is_recording, status_message,
                               <<"launch", "store">>, FALSE)
       \/ /\ env_key \notin {NoVar, ""}
          /\ cmd' = Command("H", env_key)
          /\ last' = Completed("H", "start", env_key, "failed",
                               voice_keyboard_process, is_recording,
                               status_message, <<"launch">>, FALSE)
          /\ UNCHANGED <<voice_keyboard_process, proc>>
    /\ Return("H")
    /\ process_lock' = "free"
    /\ pc' = [pc EXCEPT !["H"] = "recv"]
    /\ UNCHANGED <<build, audio_sink, is_recording, status_message, api_key,
                   env_key, events, held, elapsed, sawExit, issued, torn,
                   exited, environ,
                   start_key>>

-----------------------------------------------------------------------------
(* The GUI context: update(), start_dictation, stop_dictation, Drop.       *)

\* A SaveConfig that also exports the saved key to the environment.
SaveConfigSetsEnv ==
    /\ ~exited
    /\ pc["U"] = "idle"
    /\ \E k \in Keys, ok \in BOOLEAN :
          /\ api_key' = k
          /\ env_key' = k
          /\ status_message' = IF ok THEN "Configuration saved!"
                                     ELSE "Failed to save config"
    /\ UNCHANGED <<build, voice_keyboard_process, process_lock, audio_sink,
                   is_recording, events, pc, held, elapsed, sawExit,
                   proc, issued, last, torn, exited, environ, cmd, fx,
                   start_key>>

\* Message::SaveConfig with the key typed into the form; save() may fail.
SaveConfig ==
    /\ ~exited
    /\ pc["U"] = "idle"
    /\ \E k \in Keys, ok \in BOOLEAN :
          /\ api_key' = k
          /\ status_message' = IF ok THEN "Configuration saved!"
                                     ELSE "Failed to save config"
    /\ UNCHANGED <<build, voice_keyboard_process, process_lock, audio_sink,
                   is_recording, env_key, events, pc, held, elapsed, sawExit,
                   proc, issued, last, torn, exited, environ, cmd, fx,
                   start_key>>

\* Message::ToggleDictation: if self.is_recording { stop } else { start };
\* start_dictation begins with env::set_var("DEEPGRAM_API_KEY", config.api_key).
U_Toggle ==
    /\ ~exited
    /\ pc["U"] = "idle"
    /\ issued < MaxToggles
    /\ issued' = issued + 1
    /\ IF is_recording
       THEN /\ pc' = [pc EXCEPT !["U"] = "stop_cue"]
            /\ UNCHANGED <<env_key, start_key>>
       ELSE /\ pc' = [pc EXCEPT !["U"] = "start_cue"]
            /\ env_key' = api_key
            /\ start_key' = api_key
    /\ UNCHANGED <<build, voice_keyboard_process, process_lock, audio_sink,
                   is_recording, status_message, api_key, events, held,
                   elapsed, sawExit, proc, last, torn, exited, environ, cmd, fx>>

\* play_start_beep (app: the sink stays locked over the 50 ms sleep) or
\* play_beep(800.0) (src).
U_StartCue ==
    /\ ~exited
    /\ pc["U"] = "start_cue"
    /\ audio_sink = "free"
    /\ IF build = "app"
       THEN /\ audio_sink' = "U"
            /\ pc' = [pc EXCEPT !["U"] = "start_cue2"]
       ELSE /\ pc' = [pc EXCEPT !["U"] = "spawn"]
            /\ UNCHANGED audio_sink
    /\ Did("U", <<"cue">>)
    /\ UNCHANGED <<build, voice_keyboard_process, process_lock, is_recording,
                   status_message, api_key, env_key, events, held, elapsed,
                   sawExit, proc, issued, last, torn, exited, environ, cmd,
                   start_key>>

U_StartCue2 ==
    /\ ~exited
    /\ pc["U"] = "start_cue2"
    /\ audio_sink' = "free"
    /\ pc' = [pc EXCEPT !["U"] = "spawn"]
    /\ UNCHANGED <<build, voice_keyboard_process, process_lock, is_recording,
                   status_message, api_key, env_key, events, held, elapsed,
                   sawExit, proc, issued, last, torn, exited, environ, cmd, fx,
                   start_key>>

\* match cmd.spawn(): the command is run without holding the slot's mutex and
\* whatever config.api_key is; Err(e) sets the status and returns.
U_Spawn ==
    /\ ~exited
    /\ pc["U"] = "spawn"
    /\ cmd' = Command("U", api_key)
    /\ \/ /\ proc' = Spawned(NextChild)
          /\ held' = [held EXCEPT !["U"] = NextChild]
          /\ pc' = [pc EXCEPT !["U"] = "store"]
          /\ Did("U", <<"launch">>)
          /\ UNCHANGED <<status_message, last>>
       \/ /\ status_message' = "Failed to start"
          /\ pc' = [pc EXCEPT !["U"] = "idle"]
          /\ last' = Completed("U", "start", api_key, "failed",
                               voice_keyboard_process, is_recording,
                               "Failed to start",
                               <<"launch", "report">>, FALSE)
          /\ Return("U")
          /\ UNCHANGED <<proc, held>>
    /\ UNCHANGED <<build, voice_keyboard_process, process_lock, audio_sink,
                   is_recording, api_key, env_key, events, elapsed, sawExit,
                   issued, torn, exited, environ,
                   start_key>>

\* Ok(child) => { *self.voice_keyboard_process.lock().unwrap() = Some(child);
\*                self.is_recording = true; status = "Recording..." }
\* The previous content of the slot is dropped; dropping a Child kills nothing.
U_Store ==
    /\ ~exited
    /\ pc["U"] = "store"
    /\ process_lock = "free"
    /\ voice_keyboard_process' = held["U"]
    /\ held' = [held EXCEPT !["U"] = None]
    /\ is_recording' = TRUE
    /\ status_message' = "Recording..."
    /\ pc' = [pc EXCEPT !["U"] = "idle"]
    /\ last' = Completed("U", "start", api_key, "started", held["U"], TRUE,
                         "Recording...", <<"store", "recording">>, FALSE)
    /\ Return("U")
    /\ UNCHANGED <<build, process_lock, audio_sink, api_key, env_key, events,
                   elapsed, sawExit, proc, issued, torn, exited, environ, cmd,
                   start_key>>

\* stop_dictation: self.play_beep(400.0)
U_StopCue ==
    /\ ~exited
    /\ pc["U"] = "stop_cue"
    /\ audio_sink = "free"
    /\ pc' = [pc EXCEPT !["U"] = "take"]
    /\ Did("U", <<"cue">>)
    /\ UNCHANGED <<build, voice_keyboard_process, process_lock, audio_sink,
                   is_recording, status_message, api_key, env_key, events,
                   held, elapsed, sawExit, proc, issued, last, torn, exited,
                   environ, cmd,
                   start_key>>

\* The mutex is released and both assignments follow the `if let` block.
U_TakeNoneIdle ==
    /\ pc' = [pc EXCEPT !["U"] = "idle"]
    /\ is_recording' = FALSE
    /\ status_message' = "Stopped"
    /\ last' = Completed("U", "stop", NoVar, "none", None, FALSE, "Stopped",
                         <<"idle">>, FALSE)
    /\ Return("U")
    /\ UNCHANGED <<voice_keyboard_process, process_lock, held, elapsed,
                   sawExit, proc>>

\* take() returned None: the whole `if let Some(mut child)` block of
\* stop_dictation is skipped, with it is_recording = false and the status.
U_TakeNone ==
    /\ pc' = [pc EXCEPT !["U"] = "idle"]
    /\ last' = Completed("U", "stop", NoVar, "none", None, is_recording,
                         status_message, <<>>, FALSE)
    /\ Return("U")
    /\ UNCHANGED <<voice_keyboard_process, process_lock, is_recording,
                   status_message, held, elapsed, sawExit, proc>>

\* if let Some(mut child) = self.voice_keyboard_process.lock().unwrap().take()
\* The guard is a temporary of the if-let: it lives to the end of the block.
\* An empty slot ends stop_dictation with nothing changed.
U_Take ==
    /\ ~exited
    /\ pc["U"] = "take"
    /\ process_lock = "free"
    /\ LET c == voice_keyboard_process IN
       \/ /\ c = None
          /\ U_TakeNone
       \/ /\ c # None
          /\ build = "app"
          /\ \E ok \in BOOLEAN : proc' = TakeKill(c, "U", ok)
          /\ voice_keyboard_process' = Taken
          /\ process_lock' = "U"
          /\ held' = [held EXCEPT !["U"] = c]
          /\ elapsed' = [elapsed EXCEPT !["U"] = 0]
          /\ sawExit' = [sawExit EXCEPT !["U"] = FALSE]
          /\ pc' = [pc EXCEPT !["U"] = "poll"]
          /\ Did("U", <<"clear", "signal">>)
          /\ UNCHANGED <<is_recording, status_message, last>>
       \/ /\ c # None
          /\ build = "src"
          /\ \E ok \in BOOLEAN :
                proc' = [TakeKill(c, "U", ok) EXCEPT ![c].outcome = "Unwaited"]
          /\ voice_keyboard_process' = Taken
          /\ is_recording' = FALSE
          /\ status_message' = "Stopped"
          /\ pc' = [pc EXCEPT !["U"] = "idle"]
          /\ last' = Completed("U", "stop", NoVar, "stopped", None, FALSE,
                               "Stopped", <<"clear", "signal", "idle">>,
                               proc[c].st # "running")
          /\ Return("U")
          /\ UNCHANGED <<process_lock, held, elapsed, sawExit>>
    /\ UNCHANGED <<build, audio_sink, api_key, env_key, events, issued, torn,
                   exited, environ, cmd,
                   start_key>>

U_Poll == Poll("U", "poll", STOP_GRACE_MS, STOP_POLL_MS, "kill2")

U_Kill2 == Kill2("U", "kill2", "wait")

\* let _ = child.wait(); self.is_recording = false; status = "Stopped"
U_Wait ==
    /\ ~exited
    /\ pc["U"] = "wait"
    /\ CanWait("U")
    /\ proc' = Waited("U", STOP_GRACE_MS)
    /\ held' = [held EXCEPT !["U"] = None]
    /\ elapsed' = [elapsed EXCEPT !["U"] = 0]
    /\ sawExit' = [sawExit EXCEPT !["U"] = FALSE]
    /\ process_lock' = "free"
    /\ is_recording' = FALSE
    /\ status_message' = "Stopped"
    /\ pc' = [pc EXCEPT !["U"] = "idle"]
    /\ last' = Completed("U", "stop", NoVar, "stopped", voice_keyboard_process,
                         FALSE, "Stopped", <<"await", "idle">>,
                         ~proc[held["U"]].liveAtStop)
    /\ Return("U")
    /\ UNCHANGED <<build, voice_keyboard_process, audio_sink, api_key, env_key,
                   events, issued, torn, exited, environ, cmd,
                   start_key>>

-----------------------------------------------------------------------------
(* Teardown: the window closes, the GUI value is dropped, main returns.    *)

\* The application leaves its event loop.  Only app/src/gui.rs has a Drop.
Teardown ==
    /\ ~exited
    /\ pc["U"] = "idle"
    /\ pc' = [pc EXCEPT !["U"] = IF build = "app" THEN "drop_take" ELSE "dropped"]
    /\ torn' = voice_keyboard_process
    /\ UNCHANGED <<build, voice_keyboard_process, process_lock, audio_sink,
                   is_recording, status_message, api_key, env_key, events,
                   held, elapsed, sawExit, proc, issued, last, exited,
                   environ, cmd, fx,
                   start_key>>

\* Drop::drop: if let Some(mut child) = ...lock().unwrap().take() { kill ...
D_Take ==
    /\ ~exited
    /\ pc["U"] = "drop_take"
    /\ process_lock = "free"
    /\ LET c == voice_keyboard_process IN
       \/ /\ c = None
          /\ pc' = [pc EXCEPT !["U"] = "dropped"]
          /\ UNCHANGED <<voice_keyboard_process, process_lock, held, elapsed,
                         sawExit, proc>>
       \/ /\ c # None
          /\ \E ok \in BOOLEAN : proc' = TakeKill(c, "Drop", ok)
          /\ voice_keyboard_process' = Taken
          /\ process_lock' = "U"
          /\ held' = [held EXCEPT !["U"] = c]
          /\ elapsed' = [elapsed EXCEPT !["U"] = 0]
          /\ sawExit' = [sawExit EXCEPT !["U"] = FALSE]
          /\ pc' = [pc EXCEPT !["U"] = "drop_poll"]
    /\ UNCHANGED <<build, audio_sink, is_recording, status_message, api_key,
                   env_key, events, issued, last, torn, exited, environ, cmd, fx,
                   start_key>>

D_Poll == Poll("U", "drop_poll", DROP_GRACE_MS, DROP_POLL_MS, "drop_kill2")

D_Kill2 == Kill2("U", "drop_kill2", "drop_wait")

D_Wait ==
    /\ ~exited
    /\ pc["U"] = "drop_wait"
    /\ CanWait("U")
    /\ proc' = Waited("U", DROP_GRACE_MS)
    /\ held' = [held EXCEPT !["U"] = None]
    /\ elapsed' = [elapsed EXCEPT !["U"] = 0]
    /\ sawExit' = [sawExit EXCEPT !["U"] = FALSE]
    /\ process_lock' = "free"
    /\ pc' = [pc EXCEPT !["U"] = "dropped"]
    /\ UNCHANGED <<build, voice_keyboard_process, audio_sink, is_recording,
                   status_message, api_key, env_key, events, issued, last,
                   torn, exited, environ, cmd, fx,
                   start_key>>

\* main returns: the controller process, and with it the listener thread, ends.
ProcessExit ==
    /\ ~exited
    /\ pc["U"] = "dropped"
    /\ exited' = TRUE
    /\ UNCHANGED <<build, voice_keyboard_process, process_lock, audio_sink,
                   is_recording, status_message, api_key, env_key, events, pc,
                   held, elapsed, sawExit, proc, issued, last, torn,
                   environ, cmd, fx,
                   start_key>>

-----------------------------------------------------------------------------

Next ==
    \/ HotkeyPress
    \/ \E c \in Children : ChildExit(c)
    \/ H_Recv \/ H_Lock \/ H_StopCue \/ H_Take \/ H_Poll \/ H_Kill2 \/ H_Wait
    \/ H_StartCue \/ H_StartCue2 \/ H_Spawn
    \/ SaveConfig \/ U_Toggle
    \/ U_StartCue \/ U_StartCue2 \/ U_Spawn \/ U_Store
    \/ U_StopCue \/ U_Take \/ U_Poll \/ U_Kill2 \/ U_Wait
    \/ Teardown \/ D_Take \/ D_Poll \/ D_Kill2 \/ D_Wait \/ ProcessExit

Spec == Init /\ [][Next]_vars

-----------------------------------------------------------------------------
(* Faults: std::env::current_exe() returning Err.                          *)

\* Listener start branch: current_exe().unwrap() panics after the key check.
\* The thread unwinds with the MutexGuard alive: the mutex is poisoned.
H_ExePanic ==
    /\ ~exited
    /\ pc["H"] = "spawn"
    /\ env_key \notin {NoVar, ""}
    /\ pc' = [pc EXCEPT !["H"] = "exe_panic"]
    /\ process_lock' = "poisoned"
    /\ UNCHANGED <<build, voice_keyboard_process, audio_sink, is_recording,
                   status_message, api_key, env_key, events, held, elapsed,
                   sawExit, proc, issued, last, torn, exited, environ, cmd, fx,
                   start_key>>

\* start_dictation: current_exe().unwrap() panics on the main thread, after
\* set_var and the cue: the controller process ends.
U_ExePanic ==
    /\ ~exited
    /\ pc["U"] = "spawn"
    /\ pc' = [pc EXCEPT !["U"] = "exe_panic"]
    /\ exited' = TRUE
    /\ UNCHANGED <<build, voice_keyboard_process, process_lock, audio_sink,
                   is_recording, status_message, api_key, env_key, events,
                   held, elapsed, sawExit, proc, issued, last, torn,
                   environ, cmd, fx,
                   start_key>>

\* self.voice_keyboard_process.lock().unwrap() on the poisoned mutex: the
\* store of start_dictation, the take of stop_dictation and of Drop panic.
U_LockPanic ==
    /\ ~exited
    /\ pc["U"] \in {"store", "take", "drop_take"}
    /\ process_lock = "poisoned"
    /\ pc' = [pc EXCEPT !["U"] = "lock_panic"]
    /\ exited' = TRUE
    /\ UNCHANGED <<build, voice_keyboard_process, process_lock, audio_sink,
                   is_recording, status_message, api_key, env_key, events,
                   held, elapsed, sawExit, proc, issued, last, torn,
                   environ, cmd, fx,
                   start_key>>

FaultNext == Next \/ H_ExePanic \/ U_ExePanic \/ U_LockPanic

FaultSpec == Init /\ [][FaultNext]_vars

\* The controller with one non-empty key, configured and in the environment,
\* that is never edited: starts from either source launch.
KeyedInit == Init /\ api_key = "k1" /\ env_key = "k1"

KeyedNext ==
    \/ HotkeyPress
    \/ \E c \in Children : ChildExit(c)
    \/ H_Recv \/ H_Lock \/ H_StopCue \/ H_Take \/ H_Poll \/ H_Kill2 \/ H_Wait
    \/ H_StartCue \/ H_StartCue2 \/ H_Spawn
    \/ U_Toggle
    \/ U_StartCue \/ U_StartCue2 \/ U_Spawn \/ U_Store
    \/ U_StopCue \/ U_Take \/ U_Poll \/ U_Kill2 \/ U_Wait
    \/ Teardown \/ D_Take \/ D_Poll \/ D_Kill2 \/ D_Wait \/ ProcessExit

KeyedSpec == KeyedInit /\ [][KeyedNext]_vars

\* VoiceKeyboardGui::new with or without an audio output device.  Without
\* one, OutputStream::try_default().unwrap() panics on the main thread before
\* the GUI value exists and before the listener thread is spawned.
AudioInit ==
    \/ KeyedInit
    \/ /\ build \in Builds
       /\ voice_keyboard_process = None
       /\ process_lock = "free"
       /\ audio_sink = "no device"
       /\ is_recording = FALSE
       /\ status_message = "Ready"
       /\ api_key = "k1"
       /\ env_key = "k1"
       /\ events = 0
       /\ pc = [t \in Threads |-> IF t = "H" THEN "unspawned"
                                             ELSE "audio_panic"]
       /\ held = [t \in Threads |-> None]
       /\ elapsed = [t \in Threads |-> 0]
       /\ sawExit = [t \in Threads |-> FALSE]
       /\ proc = [c \in Children |-> Unborn]
       /\ issued = 0
       /\ last = NoToggle
       /\ torn = None
       /\ exited = TRUE
       /\ environ = SessionEnv
       /\ cmd = NoCmd
       /\ fx = [t \in Threads |-> <<>>]
       /\ start_key = env_key

AudioSpec == AudioInit /\ [][KeyedNext]_vars

\* Toggles from both sources and edits of the configuration, with workers
\* that run until they are stopped and a window that stays open.
ConfigNext ==
    \/ HotkeyPress
    \/ H_Recv \/ H_Lock \/ H_StopCue \/ H_Take \/ H_Poll \/ H_Kill2 \/ H_Wait
    \/ H_StartCue \/ H_StartCue2 \/ H_Spawn
    \/ SaveConfig \/ U_Toggle
    \/ U_StartCue \/ U_StartCue2 \/ U_Spawn \/ U_Store
    \/ U_StopCue \/ U_Take \/ U_Poll \/ U_Kill2 \/ U_Wait

ConfigSpec == Init /\ [][ConfigNext]_vars

\* The first start transition, from either trigger source, in every
\* environment the controller can be launched in.
EnvInit ==
    /\ build \in Builds
    /\ voice_keyboard_process = None
    /\ process_lock = "free"
    /\ audio_sink = "free"
    /\ is_recording = FALSE
    /\ status_message = "Ready"
    /\ api_key \in Keys
    /\ env_key \in Keys \cup {NoVar}
    /\ events = 0
    /\ pc = [t \in Threads |-> IF t = "H" THEN "recv" ELSE "idle"]
    /\ held = [t \in Threads |-> None]
    /\ elapsed = [t \in Threads |-> 0]
    /\ sawExit = [t \in Threads |-> FALSE]
    /\ proc = [c \in Children |-> Unborn]
    /\ issued = 0
    /\ last = NoToggle
    /\ torn = None
    /\ exited = FALSE
    /\ environ \in [OtherNames -> EnvVals]
    /\ environ["PATH"] \in {NoVar, "v"}
    /\ cmd = NoCmd
    /\ fx = [t \in Threads |-> <<>>]
    /\ start_key = env_key

EnvNext ==
    \/ (issued = 0 /\ HotkeyPress)
    \/ H_Recv \/ H_Lock \/ H_StartCue \/ H_StartCue2 \/ H_Spawn
    \/ (issued = 0 /\ U_Toggle)
    \/ U_StartCue \/ U_StartCue2 \/ U_Spawn \/ U_Store

EnvSpec == EnvInit /\ [][EnvNext]_vars

TypeOK ==
    /\ build \in Builds
    /\ voice_keyboard_process \in Children \cup {None}
    /\ process_lock \in {"free", "H", "U"}
    /\ audio_sink \in {"free", "H", "U"}
    /\ is_recording \in BOOLEAN
    /\ api_key \in Keys
    /\ env_key \in Keys \cup {NoVar}
    /\ events \in 0..MaxToggles
    /\ issued \in 0..MaxToggles
    /\ \A c \in Children : proc[c].kills \in 0..2
    /\ environ \in [OtherNames -> EnvVals]

-----------------------------------------------------------------------------
(* Properties.                                                             *)

\* No transition is in progress in either context.
Quiescent == pc["H"] = "recv" /\ pc["U"] = "idle"

\* The Session state as both trigger sources share it: a handle is held.
Recording == voice_keyboard_process # None

\* C1: after every completed transition, from whichever trigger source, the
\* UI's is_recording flag is true exactly when the shared slot holds a child.
C1_FlagIffHandle ==
    Quiescent => (is_recording <=> voice_keyboard_process # None)

\* C2: in every reachable state at most one worker child launched by the
\* controller is running.
C2_AtMostOneChild == Cardinality(Running) <= 1

\* C3: every toggle call produces a transition: none is lost (a call that
\* changes nothing) and none is a double start (a child launched while an
\* earlier one is still running).
C3_NoLostNoDoubleStart ==
    last.n > 0 => (last.effect # "none" /\ ~last.dbl)

\* C4: the Session state after each toggle call alternates strictly, starting
\* from Idle: once m calls have returned it is Recording when m is odd and
\* Idle when m is even.  Starts that were refused or whose launch failed are
\* not counted in m: they leave the Session Idle by design.
C4_StrictAlternation ==
    Quiescent => (Recording <=> last.m % 2 = 1)

\* C5: when teardown began with a child in the slot, that child has been
\* terminated by the time teardown has returned.
C5_TeardownTerminatesHeld ==
    (pc["U"] = "dropped" /\ torn # None) => proc[torn].st # "running"

\* Drop::drop of app/src/gui.rs does terminate the child it found in the slot;
\* src/gui.rs has no Drop.
AppDropTerminatesHeld ==
    build = "app" => C5_TeardownTerminatesHeld

\* C6: once teardown has returned, no worker the controller ever launched is
\* still running.
C6_NoOrphanAfterTeardown ==
    pc["U"] = "dropped" => Running = {}

\* C7: a start with an empty (or unset) API key is refused from either trigger
\* source: no handle, not Recording, and the status explains the refusal.
C7_EmptyKeyRefused ==
    (last.kind = "start" /\ last.key \in {"", NoVar}) =>
        /\ ~last.handle
        /\ ~last.rec
        /\ last.status \notin {"Ready", "Recording...", "Stopped",
                               "Configuration saved!"}

\* C8: a failed launch is surfaced on either trigger path: no handle, the
\* status is the failure text and the control stays in its start affordance.
C8_LaunchFailureSurfaced ==
    (last.kind = "start" /\ last.effect = "failed") =>
        /\ ~last.handle
        /\ ~last.rec
        /\ last.status = "Failed to start"

\* C9: a child that was running at the stop request and exits on its own
\* within the grace window ends with outcome Exited and was sent no forced
\* kill.
C9_NoForcedKillOnGracefulExit ==
    \A c \in Children :
        (proc[c].liveAtStop /\ proc[c].selfExit /\ proc[c].by # "none"
            /\ proc[c].outcome # "none")
        => (proc[c].outcome = "Exited" /\ proc[c].kills = 0)

\* C10: on every path that stops a child, a child that does not exit on its
\* own is polled for the whole grace window, then killed and waited for: the
\* outcome is TimedOutThenKilled and the process is not running on return.
C10_TimeoutThenKill ==
    \A c \in Children :
        (proc[c].liveAtStop /\ ~proc[c].selfExit /\ proc[c].outcome # "none")
        => /\ proc[c].outcome = "TimedOutThenKilled"
           /\ proc[c].fullGrace
           /\ proc[c].st # "running"

\* The variables of the controller's environment that are set.
SetIn(e) == {n \in EnvNames : e[n] # NoVar}

\* C11: in every controller environment, the variables passed to the launched
\* worker are exactly the allow-listed variables that are set in the
\* controller's environment, each with its value; an unset one is absent and
\* no other variable is passed.
C11_ForwardsExactlyAllowListed ==
    cmd # NoCmd =>
        /\ SetIn(cmd.env) = SetIn(cmd.ctl) \cap ALLOW_LIST
        /\ \A n \in SetIn(cmd.env) : cmd.env[n] = cmd.ctl[n]

\* The same, for the variables that std::env::var can read: this much
\* app/src/gui.rs does on both trigger paths.
AppForwardsReadableAllowListed ==
    (cmd # NoCmd /\ build = "app") =>
        /\ SetIn(cmd.env) = {n \in SetIn(cmd.ctl) \cap ALLOW_LIST :
                                 cmd.ctl[n] # NotUnicode}
        /\ \A n \in SetIn(cmd.env) : cmd.env[n] = cmd.ctl[n]

\* C12: the status string is updated by each transition, whichever source
\* performed it: "Recording..." after every successful start, "Stopped" after
\* every stop and a failure description after every failed start.
C12_StatusFollowsTransition ==
    /\ last.effect = "started" => last.status = "Recording..."
    /\ last.effect = "stopped" => last.status = "Stopped"
    /\ last.effect = "failed" => last.status = "Failed to start"

\* The UI path does update the status on each of its transitions.
UiStatusFollowsTransition == last.src = "U" => C12_StatusFollowsTransition

\* Drop::drop is inside child.wait() on a child that no kill reached: it
\* returns only if that child exits of its own accord.
TeardownBlocked == pc["U"] = "drop_wait" /\ ~CanWait("U")

\* C13: teardown always terminates: when the forced kill of the held child
\* fails, teardown is never left waiting for that child.
C13_TeardownNeverBlocks == ~TeardownBlocked

\* Context t has read the Session state for a toggle and has not yet finished
\* storing or clearing the handle.
InTransition(t) ==
    IF t = "H"
    THEN pc["H"] \in {"stop_cue", "take", "poll", "kill2", "wait",
                      "start_cue", "start_cue2", "spawn"}
    ELSE pc["U"] \in {"start_cue", "start_cue2", "spawn", "store",
                      "stop_cue", "take", "poll", "kill2", "wait"}

\* C14: transitions are atomic with respect to each other: while one trigger
\* source is between reading the state and storing or clearing the handle,
\* the other source's transition has not read the state.
C14_TransitionsAtomic == ~(InTransition("H") /\ InTransition("U"))

\* The listener does hold the lock for the whole of its transition.
ListenerHoldsLock == InTransition("H") => process_lock = "H"

\* C15: the first request of the termination protocol to a live child is a
\* graceful termination request (SIGTERM), distinct from the forceful kill.
C15_FirstRequestGraceful ==
    \A c \in Children : proc[c].liveAtStop => proc[c].sig = "SIGTERM"

\* In the sequence of side effects seq, every a comes before every b.
Before(seq, a, b) ==
    \A i, j \in 1..Len(seq) : (seq[i] = a /\ seq[j] = b) => i < j

\* C16: a start transition emits the start cue, then invokes the launcher,
\* then on success stores the handle and sets the state to Recording; on
\* launch failure it stores nothing, leaves the state and reports the failure.
C16_StartSideEffectsInOrder ==
    /\ last.effect = "started" =>
           last.fx = <<"cue", "launch", "store", "recording">>
    /\ last.effect = "failed" => last.fx = <<"cue", "launch", "report">>

\* What both paths do keep: the order of the side effects they perform, and
\* no store after a failed launch.
StartOrderKept ==
    last.kind = "start" =>
        /\ Before(last.fx, "cue", "launch")
        /\ Before(last.fx, "launch", "store")
        /\ Before(last.fx, "store", "recording")
        /\ last.effect = "failed" =>
               \A i \in 1..Len(last.fx) : last.fx[i] \notin {"store", "recording"}

\* The UI path performs all of a start's side effects.
UiStartSideEffectsInOrder == last.src = "U" => C16_StartSideEffectsInOrder

\* The side effect e is in the sequence seq.
Has(seq, e) == \E i \in 1..Len(seq) : seq[i] = e

\* C17: a stop transition emits the stop cue, then requests termination of
\* the held child and awaits it, and ends by clearing the handle and setting
\* the state to Idle: every stop ends with the Session Idle and no handle.
C17_StopSideEffectsInOrder ==
    last.kind = "stop" =>
        /\ Has(last.fx, "cue") /\ Has(last.fx, "signal")
        /\ Has(last.fx, "await") /\ Has(last.fx, "idle")
        /\ Before(last.fx, "cue", "signal")
        /\ Before(last.fx, "signal", "await")
        /\ Before(last.fx, "await", "idle")
        /\ ~last.handle
        /\ ~last.rec

\* A stop by stop_dictation of app/src/gui.rs that finds a child in the slot
\* does all of this.
AppUiStopInOrder ==
    (build = "app" /\ last.src = "U" /\ last.effect = "stopped")
        => C17_StopSideEffectsInOrder

\* The children a toggle stopped that had already exited before the first
\* signal, and whose stop has completed.
StoppedDead ==
    {c \in Children : /\ proc[c].by \in Threads
                      /\ ~proc[c].liveAtStop
                      /\ proc[c].outcome # "none"}

\* C18: when the child has already exited before the stop request, the stop
\* completes normally: the outcome is Exited, the handle is cleared and the
\* Session ends Idle.
C18_DeadChildStopCompletes ==
    /\ \A c \in StoppedDead : proc[c].outcome = "Exited"
    /\ (last.kind = "stop" /\ last.dead) => (~last.handle /\ ~last.rec)

\* app/src/gui.rs: signalling the dead child is harmless and the protocol
\* ends as Exited, without running the grace window, on both paths.
AppDeadChildExited ==
    build = "app" =>
        \A c \in StoppedDead : proc[c].outcome = "Exited" /\ ~proc[c].fullGrace

\* C19: the hotkey path and the UI path implement the same two transitions:
\* with the same key both apply the same guard, and a start or stop with the
\* same effect leaves the same state, handle and status and has performed the
\* same side effects.
C19_PathsEquivalent ==
    (last.peer.kind = last.kind /\ last.peer.key = last.key) =>
        /\ (last.effect = "refused") <=> (last.peer.effect = "refused")
        /\ last.effect = last.peer.effect =>
               /\ last.rec = last.peer.rec
               /\ last.handle = last.peer.handle
               /\ last.status = last.peer.status
               /\ last.fx = last.peer.fx

\* C20: a start with an absent or empty API key has no side effect other
\* than the status message: no start cue, no launch, no handle stored and no
\* change of state.
C20_RefusedStartNoSideEffects ==
    (last.kind = "start" /\ last.key \in {NoVar, ""}) => last.fx = <<>>

\* The listener does refuse such a start, and launches and stores nothing.
ListenerRefusalLaunchesNothing ==
    (last.src = "H" /\ last.kind = "start" /\ last.key \in {NoVar, ""}) =>
        /\ last.effect = "refused"
        /\ ~Has(last.fx, "launch") /\ ~Has(last.fx, "store")
        /\ ~last.handle

\* C21: a failure during start or stop never propagates as an unhandled
\* fault: when the location of the running executable cannot be determined
\* the start is refused, and neither the GUI context nor the hotkey listener
\* crashes.
C21_NoUnhandledFault ==
    \A t \in Threads : pc[t] \notin {"exe_panic", "lock_panic"}

\* C22: the child handle is owned by one context at a time: it is taken out
\* of the Session slot before any signal or wait, it is never held by two
\* contexts, and at most one context ever signals or waits on a given child.
C22_ExclusiveOwnership ==
    /\ \A c \in Children : Cardinality(proc[c].users) <= 1
    /\ \A t \in Threads : held[t] # None => voice_keyboard_process # held[t]
    /\ held["H"] # None => held["H"] # held["U"]

\* The listener is inside the termination protocol on a child while the GUI
\* thread is at its own take.
C22_Contended ==
    /\ pc["H"] \in {"poll", "kill2", "wait"}
    /\ proc[held["H"]].users = {"H"}
    /\ pc["U"] \in {"take", "drop_take"}

\* Thread t is inside the termination protocol: the polling loop, the second
\* kill or the final wait.
InTermination(t) ==
    IF t = "H" THEN pc["H"] \in {"poll", "kill2", "wait"}
    ELSE pc["U"] \in {"poll", "kill2", "wait",
                      "drop_poll", "drop_kill2", "drop_wait"}

\* Thread t is about to emit a cue and cannot: the UI needs the sink lock; the
\* listener needs the Session lock first, since it emits its cue under it.
CueBlocked(t) ==
    IF t = "H" THEN pc["H"] = "lock" /\ process_lock # "free"
    ELSE pc["U"] \in {"start_cue", "stop_cue"} /\ audio_sink # "free"

\* C23: the audio sink has its own lock and no context holds it during the
\* termination polling loop, so a cue of one context is never blocked while
\* another context is inside the termination wait.
C23_CueNeverBlockedByTermination ==
    \A t, u \in Threads :
        (t # u /\ InTermination(u)) => (audio_sink # u /\ ~CueBlocked(t))

\* The sink lock is never held through the termination protocol, and a cue
\* of the UI is never blocked by a termination wait of the listener.
SinkFreeDuringTermination ==
    \A u \in Threads : InTermination(u) =>
        (audio_sink # u /\ (u = "H" => ~CueBlocked("U")))

\* C24: failure to acquire the audio output device is not fatal: the
\* controller runs, the cue is skipped and toggles proceed as with audio.
C24_AudioFailureNonFatal ==
    audio_sink = "no device" => (pc["U"] # "audio_panic" /\ ~exited)

\* Thread t is at a lock() call on the Session mutex / on the sink mutex.
WantsSession(t) ==
    IF t = "H" THEN pc["H"] = "lock"
    ELSE pc["U"] \in {"store", "take", "drop_take"}

WantsSink(t) == pc[t] \in {"start_cue", "stop_cue"}

\* Two threads each wait for a lock the other holds.
CircularWait ==
    \E t, u \in Threads :
        /\ t # u
        /\ WantsSession(t) /\ process_lock = u
        /\ WantsSink(u) /\ audio_sink = t

\* Thread t waits for the Session lock while its holder is inside
\* child.wait() on a child that no kill reached: the lock is released only
\* if that child exits of its own accord.
SessionLockStarved(t) ==
    /\ WantsSession(t)
    /\ \E u \in Threads \ {t} :
          /\ process_lock = u
          /\ pc[u] \in {"wait", "drop_wait"}
          /\ ~CanWait(u)

\* C25: the two locks never deadlock: no two contexts each wait for a lock
\* the other holds, and every lock request is eventually granted.
C25_DeadlockFree ==
    /\ ~CircularWait
    /\ \A t \in Threads : ~SessionLockStarved(t)

\* The lock order is respected: there is no circular wait, and the GUI
\* thread never holds the sink lock when it asks for the Session lock.
LockOrderKept ==
    /\ ~CircularWait
    /\ WantsSession("U") => audio_sink # "U"

\* view(): the label of the toggle button.
toggle_button == IF is_recording THEN "Stop Dictation" ELSE "Start Dictation"

\* C26: a UI stop (is_recording true) that finds the handle slot empty emits
\* the stop cue and changes nothing else: is_recording stays true, the status
\* is unchanged, no process is signalled and the button still reads "Stop".
C26_EmptyStopChangesNothing ==
    [][(pc["U"] = "take" /\ pc'["U"] = "idle" /\ voice_keyboard_process = None)
         => /\ is_recording /\ is_recording'
            /\ status_message' = status_message
            /\ proc' = proc
            /\ voice_keyboard_process' = None
            /\ last'.fx = <<"cue">>
            /\ toggle_button' = "Stop Dictation"]_vars

\* A UI stop on an empty slot has just returned.
C26_EmptyStopDone ==
    /\ last.src = "U" /\ last.kind = "stop" /\ last.effect = "none"
    /\ pc["U"] = "idle"
    /\ voice_keyboard_process = None
    /\ is_recording

\* C27: every UI start first sets DEEPGRAM_API_KEY to the configuration key,
\* so the key a hotkey start checks and forwards is the configuration key as
\* of the most recent UI start, or the inherited value if there was none,
\* whatever has been saved to the configuration since.
C27_HotkeyKeyIsLastUiStartKey ==
    [][/\ (pc["U"] = "idle" /\ pc'["U"] = "start_cue") =>
              (env_key' = api_key /\ fx'["U"] = <<>>)
       /\ (pc["H"] = "spawn" /\ pc'["H"] = "recv") =>
              /\ last'.key = start_key
              /\ cmd' # cmd => cmd'.env["DEEPGRAM_API_KEY"] = start_key]_vars

\* A hotkey start has launched with the key of an earlier UI start although
\* the configuration now holds another key.
C27_StaleKeyLaunched ==
    /\ last.src = "H" /\ last.kind = "start" /\ last.effect = "started"
    /\ last.peer.src = "U"
    /\ last.key = "k1" /\ api_key = ""
    /\ cmd.by = "H" /\ cmd.env["DEEPGRAM_API_KEY"] = "k1"

====
